---------------------------- MODULE Spec2Model ----------------------------
(***************************************************************************)
(* A model of tensorcircuit/experimental.py: the chunked vmap              *)
(* (adaptive_vmap), the two natural-gradient wrappers (qng, qng2), the two *)
(* parameter-shift gradients (parameter_shift_grad and _v2) and            *)
(* hamiltonian_evol.                                                       *)
(*                                                                         *)
(* Tensors are modelled exactly as the numerical backends hold them: a     *)
(* shape and the row-major flat data.  The user function f is left         *)
(* uninterpreted: the value f returns is the term recording what f was     *)
(* applied to, so that two results are equal only when f was applied to    *)
(* the same arguments in the same order.  Python positions are 0-based,    *)
(* TLA+ sequences 1-based: position i of args is args[i + 1].              *)
(***************************************************************************)
EXTENDS Integers, Sequences, FiniteSets, TLC

VARIABLES
    backend,    \* the numerical backend in use (cons.backend)
    phase,      \* "idle", "built" (a callable was returned), "called"
    wrapper,    \* the closure most recently returned by a builder
    args,       \* the positional arguments of the most recent call
    kwargs,     \* its keyword arguments (**kws)
    result,     \* what that call returned or raised
    calls       \* the batched argument lists handed to the vmapped f, in order

vars == <<backend, phase, wrapper, args, kwargs, result, calls>>

---------------------------------------------------------------------------
(* Bounds of the model. *)

MaxN == 5           \* largest batch size of adaptive_vmap's arguments
MaxChunk == 3       \* largest chunk_size
MaxOutRank == 2     \* largest rank of one element's output of f
OutDim == 2         \* extent of every axis of one element's output of f
MaxSize == 2        \* largest number of components of a differentiated argument
MaxT == 3           \* largest length of hamiltonian_evol's tlist

Vals == {0, 1}      \* the entries of parameter tensors

---------------------------------------------------------------------------
(* Python values. *)

\* Optional[...]: None is the empty sequence, a value x is <<x>>.
None == <<>>
Some(x) == <<x>>

\* Union[int, Sequence[int]]: isinstance(x, int) is x.kind = "int".
PyInt(i) == [kind |-> "int", items |-> <<i>>]
PySeq(s) == [kind |-> "seq", items |-> s]

\* `i in seq`
InSeq(i, s) == \E k \in 1..Len(s) : s[k] = i

\* args[i] for a 0-based position i
Arg(as, i) == as[i + 1]

---------------------------------------------------------------------------
(* Tensors and the backend primitives the module calls. *)

RECURSIVE Prod(_)
Prod(shape) == IF shape = <<>> THEN 1 ELSE Head(shape) * Prod(Tail(shape))

Tensor(shape, data) == [err |-> "", shape |-> shape, data |-> data]
Raise(e) == [err |-> e, shape |-> <<>>, data |-> <<>>]
IsOk(t) == t.err = ""

\* the first error among a sequence of tensors ("" when none)
RECURSIVE FirstErr(_)
FirstErr(ts) ==
    IF ts = <<>> THEN ""
    ELSE IF Head(ts).err # "" THEN Head(ts).err ELSE FirstErr(Tail(ts))

RECURSIVE Flatten(_)
Flatten(seqs) == IF seqs = <<>> THEN <<>> ELSE Head(seqs) \o Flatten(Tail(seqs))

\* a[k] for a 0-based k: the k-th slice along the leading axis
Slice0(t, k) ==
    LET m == Prod(Tail(t.shape))
    IN  Tensor(Tail(t.shape), SubSeq(t.data, k * m + 1, (k + 1) * m))

\* a[lo:hi] along the leading axis (0-based, hi exclusive)
Rows(t, lo, hi) ==
    LET m == Prod(Tail(t.shape))
    IN  Tensor(<<hi - lo>> \o Tail(t.shape), SubSeq(t.data, lo * m + 1, hi * m))

\* a[:-s] and a[-s:] for s > 0
DropLast(t, s) == Rows(t, 0, IF t.shape[1] > s THEN t.shape[1] - s ELSE 0)
TakeLast(t, s) ==
    Rows(t, IF t.shape[1] > s THEN t.shape[1] - s ELSE 0, t.shape[1])

\* backend.reshape(t, shape); one entry of shape may be -1
Reshape(t, shape) ==
    LET holes == {k \in 1..Len(shape) : shape[k] = -1}
        known == Prod([k \in 1..Len(shape) |->
                          IF shape[k] = -1 THEN 1 ELSE shape[k]])
        size == Len(t.data)
    IN  IF ~IsOk(t) THEN t
        ELSE IF holes = {} THEN
            IF known = size THEN Tensor(shape, t.data) ELSE Raise("ValueError")
        ELSE IF Cardinality(holes) > 1 \/ known = 0 \/ size % known # 0
            THEN Raise("ValueError")
        ELSE Tensor([k \in 1..Len(shape) |->
                        IF shape[k] = -1 THEN size \div known ELSE shape[k]],
                    t.data)

\* backend.stack(ts).  Of an empty list numpy, jax and torch raise; tensorflow
\* returns the empty tensor of shape [0].
Stack(be, ts) ==
    IF FirstErr(ts) # "" THEN Raise(FirstErr(ts))
    ELSE IF ts = <<>> THEN
        IF be = "tensorflow" THEN Tensor(<<0>>, <<>>) ELSE Raise("ValueError")
    ELSE IF \E k \in 1..Len(ts) : ts[k].shape # ts[1].shape
        THEN Raise("ValueError")
    ELSE Tensor(<<Len(ts)>> \o ts[1].shape,
                Flatten([k \in 1..Len(ts) |-> ts[k].data]))

RECURSIVE SumLead(_)
SumLead(ts) == IF ts = <<>> THEN 0 ELSE Head(ts).shape[1] + SumLead(Tail(ts))

\* backend.concat(ts) along axis 0
Concat(ts) ==
    IF FirstErr(ts) # "" THEN Raise(FirstErr(ts))
    ELSE IF \E k \in 1..Len(ts) :
                \/ ts[k].shape = <<>>
                \/ Len(ts[k].shape) # Len(ts[1].shape)
                \/ Tail(ts[k].shape) # Tail(ts[1].shape)
        THEN Raise("ValueError")
    ELSE Tensor(<<SumLead(ts)>> \o Tail(ts[1].shape),
                Flatten([k \in 1..Len(ts) |-> ts[k].data]))

---------------------------------------------------------------------------
(* The user function f and backend.vmap. *)

\* f(*xs, **kws): a tensor of f's output shape whose entry p is the term
\* "component p of f(xs, kws)".
FApply(f, xs, kws) ==
    Tensor(f.out,
           [p \in 1..Prod(f.out) |-> [f |-> f.name, at |-> xs, kws |-> kws, comp |-> p]])

\* the argument list of the k-th (0-based) element of a batch
ElemArgs(argnums, as, k) ==
    [j \in 1..Len(as) |-> IF InSeq(j - 1, argnums) THEN Slice0(as[j], k) ELSE as[j]]

\* backend.vmap(f, vectorized_argnums)(*as, **kws): f on every slice of the
\* vectorized arguments, stacked along a new leading axis
Vmap(f, argnums, as, kws) ==
    LET n == Arg(as, argnums[1]).shape[1]
    IN  IF FirstErr(as) # "" THEN Raise(FirstErr(as))
        ELSE IF \E k \in 1..Len(argnums) :
                    \/ Arg(as, argnums[k]).shape = <<>>
                    \/ Arg(as, argnums[k]).shape[1] # n
            THEN Raise("ValueError")
        ELSE Tensor(<<n>> \o f.out,
                    Flatten([k \in 1..n |->
                                FApply(f, ElemArgs(argnums, as, k - 1), kws).data]))

\* one entry of the log of vmapped calls
VCall(argnums, as, kws) == [axes |-> argnums, args |-> as, kws |-> kws]

---------------------------------------------------------------------------
(* adaptive_vmap *)

\* adaptive_vmap(f, vectorized_argnums, chunk_size): the callable returned
adaptive_vmap(f, vectorized_argnums, chunk_size) ==
    IF chunk_size = None
    THEN [err |-> "", fn |-> "vmap", f |-> f,
          vectorized_argnums |-> vectorized_argnums.items, chunk_size |-> 0]
    ELSE [err |-> "", fn |-> "adaptive_vmap", f |-> f,
          vectorized_argnums |-> vectorized_argnums.items,   \* int -> (int,)
          chunk_size |-> chunk_size[1]]

\* one run of adaptive_vmap's wrapper: [r |-> what it returns or raises,
\* calls |-> the calls of _vmap it made, in order]
AdaptiveVmapWrapper(be, w, as, kws) ==
    LET va == w.vectorized_argnums
        c == w.chunk_size
        n == Arg(as, va[1]).shape[1]
        s1 == n \div c
        s2 == n % c
        reshape_args == [j \in 1..Len(as) |->
            IF InSeq(j - 1, va)
            THEN LET a == IF s2 # 0 THEN DropLast(as[j], s2) ELSE as[j]
                 IN  Reshape(a, <<s1, c>> \o Tail(a.shape))
            ELSE as[j]]
        rest_args == [j \in 1..Len(as) |->
            IF InSeq(j - 1, va) THEN TakeLast(as[j], s2) ELSE as[j]]
        nreshape_args(i) == [j \in 1..Len(as) |->
            IF InSeq(j - 1, va) THEN Slice0(reshape_args[j], i) ELSE reshape_args[j]]
        loop == [i \in 1..s1 |-> nreshape_args(i - 1)]
        rs == [i \in 1..s1 |-> Vmap(w.f, va, loop[i], kws)]
        made == [i \in 1..s1 |-> VCall(va, loop[i], kws)]
        stacked == Stack(be, rs)
        rshape == stacked.shape
        r == IF ~IsOk(stacked) THEN stacked
             ELSE IF Len(rshape) < 2 THEN Raise("IndexError")
             ELSE IF Len(rshape) = 2
                  THEN Reshape(stacked, <<rshape[1] * rshape[2]>>)
                  ELSE Reshape(stacked, <<rshape[1] * rshape[2], -1>>)
        rest_r == Vmap(w.f, va, rest_args, kws)
    IN  IF FirstErr(reshape_args) # ""
        THEN [r |-> Raise(FirstErr(reshape_args)), calls |-> <<>>]
        ELSE IF FirstErr(rs) # ""
        THEN [r |-> Raise(FirstErr(rs)),
              calls |-> SubSeq(made, 1,
                  CHOOSE i \in 1..s1 : ~IsOk(rs[i]) /\ \A h \in 1..(i - 1) : IsOk(rs[h]))]
        ELSE IF ~IsOk(r) THEN [r |-> r, calls |-> made]
        ELSE IF s2 # 0
        THEN [r |-> Concat(<<r, rest_r>>), calls |-> Append(made, VCall(va, rest_args, kws))]
        ELSE [r |-> r, calls |-> made]

\* what calling the callable adaptive_vmap returned does
CallVmapLike(be, w, as, kws) ==
    IF w.fn = "vmap"
    THEN [r |-> Vmap(w.f, w.vectorized_argnums, as, kws),
          calls |-> <<VCall(w.vectorized_argnums, as, kws)>>]
    ELSE AdaptiveVmapWrapper(be, w, as, kws)

---------------------------------------------------------------------------
(* qng and qng2.  The numerical content (f, the Jacobians, the kernel) is    *)
(* kept as the term naming what was computed; the control flow is the code's. *)

PyStr(s) == [kind |-> "str", v |-> s]
PyNone == [kind |-> "none", v |-> ""]
PyCallable(name) == [kind |-> "callable", v |-> name]

UnsupportedPostprocess == "ValueError: Unsupported postprocess option"

QRaise(e) == [err |-> e, post |-> "", fim |-> <<>>]
QReturn(post, fim) == [err |-> "", post |-> post, fim |-> fim]

\* PostProcess without its `else: raise`: an unknown option falls through to _id
PostProcessNoRaise(postprocess, fim) ==
    IF postprocess.kind = "str" /\ postprocess.v = "qng"
    THEN QReturn("_qng_post_process", fim)
    ELSE IF postprocess.kind \in {"str", "none"}
    THEN QReturn("_id", fim)
    ELSE QReturn(postprocess.v, fim)

\* the selection of _post_process in qng's wrapper and its application
PostProcess(postprocess, fim) ==
    IF postprocess.kind = "str"
    THEN IF postprocess.v = "qng"
         THEN QReturn("_qng_post_process", fim)
         ELSE QRaise(UnsupportedPostprocess)
    ELSE IF postprocess.kind = "none"
    THEN QReturn("_id", fim)
    ELSE QReturn(postprocess.v, fim)

\* qng(f, kernel, postprocess, mode): the callable returned
qng(f, kernel, postprocess, mode) ==
    [err |-> "", fn |-> "qng", f |-> f, kernel |-> kernel,
     postprocess |-> postprocess, mode |-> mode]

\* one run of qng's wrapper
QngWrapper(w, params) ==
    LET jac == IF w.mode = "fwd" THEN "jacfwd" ELSE "jacrev"
        ij == IF w.kernel = "qng" THEN "vdot(i,j)-vdot(i,psi)*vdot(psi,j)"
              ELSE IF w.kernel = "dynamics" THEN "vdot(i,j)"
              ELSE "unbound"
        fim == <<[f |-> w.f.name, params |-> params, jac |-> jac, ij |-> ij]>>
    IN  IF ij = "unbound" THEN QRaise("UnboundLocalError")
        ELSE PostProcess(w.postprocess, fim)

\* the selection of _post_process in qng2's wrapper and its application
PostProcess2(postprocess, fim) ==
    IF postprocess.kind = "str"
    THEN IF postprocess.v = "qng"
         THEN QReturn("_qng_post_process", fim)
         ELSE QRaise(UnsupportedPostprocess)
    ELSE IF postprocess.kind = "none"
    THEN QReturn("_id", fim)
    ELSE QReturn(postprocess.v, fim)

\* qng2(f, kernel, postprocess, mode): the callable returned
qng2(f, kernel, postprocess, mode) ==
    [err |-> "", fn |-> "qng2", f |-> f, kernel |-> kernel,
     postprocess |-> postprocess, mode |-> mode]

\* one run of qng2's wrapper
Qng2Wrapper(w, params) ==
    LET inner_product == IF w.kernel = "qng"
                         THEN "vdot(s2,s)-vdot(s2,sg(s))*vdot(sg(s2),s)"
                         ELSE "vdot(s2,s)"
        jac == IF w.mode = "fwd" THEN "jacfwd" ELSE "jacrev"
        fim == <<[f |-> w.f.name, params |-> params, jac |-> jac, ij |-> inner_product]>>
    IN  PostProcess2(w.postprocess, fim)

---------------------------------------------------------------------------
(* parameter_shift_grad *)

\* backend.eye(size)
Eye(size) ==
    Tensor(<<size, size>>,
           [q \in 1..(size * size) |->
               IF (q - 1) \div size = (q - 1) % size THEN 1 ELSE 0])

\* s * t
Scale(s, t) ==
    IF ~IsOk(t) THEN t ELSE Tensor(t.shape, [q \in 1..Len(t.data) |-> s * t.data[q]])

\* backend.tile(t, [size, 1, ..., 1])
RECURSIVE Repeat(_, _)
Repeat(d, m) == IF m = 0 THEN <<>> ELSE d \o Repeat(d, m - 1)

Tile(t, size) ==
    IF ~IsOk(t) THEN t
    ELSE Tensor(<<size * t.shape[1]>> \o Tail(t.shape), Repeat(t.data, size))

\* a + b and a - b of tensors of one shape
Add(a, b) ==
    IF FirstErr(<<a, b>>) # "" THEN Raise(FirstErr(<<a, b>>))
    ELSE IF a.shape # b.shape THEN Raise("ValueError")
    ELSE Tensor(a.shape, [q \in 1..Len(a.data) |-> a.data[q] + b.data[q]])

Sub(a, b) ==
    IF FirstErr(<<a, b>>) # "" THEN Raise(FirstErr(<<a, b>>))
    ELSE IF a.shape # b.shape THEN Raise("ValueError")
    ELSE Tensor(a.shape, [q \in 1..Len(a.data) |-> a.data[q] - b.data[q]])

\* (p - m) / d of two tensors of values of f: the entries stay terms
DiffQuot(p, m, d) ==
    IF FirstErr(<<p, m>>) # "" THEN Raise(FirstErr(<<p, m>>))
    ELSE IF p.shape # m.shape THEN Raise("ValueError")
    ELSE Tensor(p.shape,
                [q \in 1..Len(p.data) |-> [plus |-> p.data[q], minus |-> m.data[q], den |-> d]])

GRaise(e) == [err |-> e, tuple |-> FALSE, vals |-> <<>>]

\* parameter_shift_grad(f, argnums, jit, shifts): the callable grad_f returned.
\* shifts is the pair <<shifts[0], shifts[1]>>; vfs[k] is the axis list of the
\* k-th vmapped f.
parameter_shift_grad(f, argnums, jit, shifts) ==
    [err |-> "", fn |-> "parameter_shift_grad",
     f |-> IF jit THEN [f EXCEPT !.jit = TRUE] ELSE f,
     argnums |-> argnums.items,
     vfs |-> [k \in 1..Len(argnums.items) |-> <<argnums.items[k]>>],
     random_argnums |-> None,
     shifts |-> shifts,
     given |-> [f |-> f, argnums |-> argnums, jit |-> jit, shifts |-> shifts]]

\* one iteration of grad_f's loop, for the argument position i
GradIter(w, as, kws, i) ==
    LET shape == Arg(as, i).shape
        size == Prod(shape)
        onehot == Scale(w.shifts[1], Reshape(Eye(size), <<size>> \o shape))
        arg == Reshape(Arg(as, i), <<1>> \o shape)
        batched_arg == Tile(arg, size)
        nargs == [as EXCEPT ![i + 1] = Add(batched_arg, onehot)]
        nargs2 == [as EXCEPT ![i + 1] = Sub(batched_arg, onehot)]
    IN  IF i + 1 > Len(w.vfs)      \* vfs[i]
        THEN [r |-> Raise("IndexError"), calls |-> <<>>]
        ELSE LET vf == w.vfs[i + 1]
                 p == Vmap(w.f, vf, nargs, kws)
                 m == Vmap(w.f, vf, nargs2, kws)
             IN  [r |-> Reshape(DiffQuot(p, m, w.shifts[2]), shape),
                  calls |-> IF IsOk(p)
                            THEN <<VCall(vf, nargs, kws), VCall(vf, nargs2, kws)>>
                            ELSE <<VCall(vf, nargs, kws)>>]

\* grad_f's loop over argnums from its idx-th entry on
RECURSIVE GradLoop(_, _, _, _)
GradLoop(w, as, kws, idx) ==
    IF idx > Len(w.argnums) THEN [err |-> "", vals |-> <<>>, calls |-> <<>>]
    ELSE LET it == GradIter(w, as, kws, w.argnums[idx])
         IN  IF ~IsOk(it.r) THEN [err |-> it.r.err, vals |-> <<>>, calls |-> it.calls]
             ELSE LET rest == GradLoop(w, as, kws, idx + 1)
                  IN  [err |-> rest.err,
                       vals |-> IF rest.err = "" THEN <<it.r>> \o rest.vals ELSE <<>>,
                       calls |-> it.calls \o rest.calls]

\* one run of parameter_shift_grad's grad_f
GradF(w, as, kws) ==
    LET g == GradLoop(w, as, kws, 1)
    IN  [r |-> IF g.err # "" THEN GRaise(g.err)
               ELSE IF Len(w.argnums) > 1
               THEN [err |-> "", tuple |-> TRUE, vals |-> g.vals]
               ELSE [err |-> "", tuple |-> FALSE, vals |-> <<g.vals[1]>>],
         calls |-> g.calls]

---------------------------------------------------------------------------
(* parameter_shift_grad_v2 *)

\* backend.random_split(key): <<the new key, the subkey>>.  Keys are the nodes
\* of a binary tree, so that the keys split off one key are all different.
RandomSplit(key) ==
    <<Tensor(key.shape, <<2 * key.data[1]>>), Tensor(key.shape, <<2 * key.data[1] + 1>>)>>

\* `for _ in range(size): key, subkey = random_split(key); keys.append(subkey)`
RECURSIVE SplitLoop(_, _)
SplitLoop(key, size) ==
    IF size = 0 THEN [key |-> key, keys |-> <<>>]
    ELSE LET s == RandomSplit(key)
             rest == SplitLoop(s[1], size - 1)
         IN  [key |-> rest.key, keys |-> <<s[2]>> \o rest.keys]

\* parameter_shift_grad_v2 with shifts lost on the way: grad_f is left with the
\* default pair (here <<1, 2>>) whatever the caller gave
V2DroppingShifts(f, argnums, jit, random_argnums, shifts) ==
    [err |-> "", fn |-> "parameter_shift_grad_v2",
     f |-> IF jit THEN [f EXCEPT !.jit = TRUE] ELSE f,
     argnums |-> argnums.items,
     vfs |-> IF random_argnums = None
             THEN [k \in 1..Len(argnums.items) |-> <<argnums.items[k]>>]
             ELSE [k \in 1..Len(argnums.items) |->
                      <<argnums.items[k]>> \o random_argnums[1].items],
     random_argnums |-> IF random_argnums = None THEN None
                        ELSE Some(random_argnums[1].items),
     shifts |-> <<1, 2>>,
     given |-> [f |-> f, argnums |-> argnums, jit |-> jit, shifts |-> shifts]]

\* parameter_shift_grad_v2(f, argnums, jit, random_argnums, shifts)
parameter_shift_grad_v2(f, argnums, jit, random_argnums, shifts) ==
    [err |-> "", fn |-> "parameter_shift_grad_v2",
     f |-> IF jit THEN [f EXCEPT !.jit = TRUE] ELSE f,
     argnums |-> argnums.items,
     vfs |-> IF random_argnums = None
             THEN [k \in 1..Len(argnums.items) |-> <<argnums.items[k]>>]
             ELSE [k \in 1..Len(argnums.items) |->
                      <<argnums.items[k]>> \o random_argnums[1].items],
     random_argnums |-> IF random_argnums = None THEN None
                        ELSE Some(random_argnums[1].items),
     shifts |-> shifts,
     given |-> [f |-> f, argnums |-> argnums, jit |-> jit, shifts |-> shifts]]

\* one iteration of the v2 grad_f's loop, for the argument position i
GradIterV2(be, w, as, kws, i) ==
    LET shape == Arg(as, i).shape
        size == Prod(shape)
        onehot == Scale(w.shifts[1], Reshape(Eye(size), <<size>> \o shape))
        arg == Reshape(Arg(as, i), <<1>> \o shape)
        batched_arg == Tile(arg, size)
        shifted == [as EXCEPT ![i + 1] = Add(batched_arg, onehot)]
        shifted2 == [as EXCEPT ![i + 1] = Sub(batched_arg, onehot)]
        random == IF w.random_argnums = None THEN <<>> ELSE w.random_argnums[1]
        first(j) == SplitLoop(as[j], size)
        second(j) == SplitLoop(first(j).key, size)
        nargs == [j \in 1..Len(as) |->
                     IF InSeq(j - 1, random) THEN Stack(be, first(j).keys) ELSE shifted[j]]
        nargs2 == [j \in 1..Len(as) |->
                     IF InSeq(j - 1, random) THEN Stack(be, second(j).keys) ELSE shifted2[j]]
    IN  IF i + 1 > Len(w.vfs)      \* vfs[i]
        THEN [r |-> Raise("IndexError"), calls |-> <<>>]
        ELSE LET vf == w.vfs[i + 1]
                 p == Vmap(w.f, vf, nargs, kws)
                 m == Vmap(w.f, vf, nargs2, kws)
             IN  [r |-> Reshape(DiffQuot(p, m, w.shifts[2]), shape),
                  calls |-> IF IsOk(p)
                            THEN <<VCall(vf, nargs, kws), VCall(vf, nargs2, kws)>>
                            ELSE <<VCall(vf, nargs, kws)>>]

RECURSIVE GradLoopV2(_, _, _, _, _)
GradLoopV2(be, w, as, kws, idx) ==
    IF idx > Len(w.argnums) THEN [err |-> "", vals |-> <<>>, calls |-> <<>>]
    ELSE LET it == GradIterV2(be, w, as, kws, w.argnums[idx])
         IN  IF ~IsOk(it.r) THEN [err |-> it.r.err, vals |-> <<>>, calls |-> it.calls]
             ELSE LET rest == GradLoopV2(be, w, as, kws, idx + 1)
                  IN  [err |-> rest.err,
                       vals |-> IF rest.err = "" THEN <<it.r>> \o rest.vals ELSE <<>>,
                       calls |-> it.calls \o rest.calls]

\* one run of parameter_shift_grad_v2's grad_f
GradFV2(be, w, as, kws) ==
    LET g == GradLoopV2(be, w, as, kws, 1)
    IN  [r |-> IF g.err # "" THEN GRaise(g.err)
               ELSE IF Len(w.argnums) > 1
               THEN [err |-> "", tuple |-> TRUE, vals |-> g.vals]
               ELSE [err |-> "", tuple |-> FALSE, vals |-> <<g.vals[1]>>],
         calls |-> g.calls]

---------------------------------------------------------------------------
(* hamiltonian_evol *)

\* _evol with callback handed the state before it is divided by its norm
EvolCallbackOnRaw(h, psi0, callback, t) ==
    LET es == [eigenvalues |-> h.name]
        u == [eigenvectors |-> h.name]
        utpsi0 == [transposed |-> u, on |-> psi0]
        psi_exact == [q \in 1..h.dim |->
                         [t |-> t, es |-> es, u |-> u, utpsi0 |-> utpsi0, comp |-> q]]
        normalized == Tensor(<<h.dim>>,
                             [q \in 1..h.dim |->
                                 [num |-> psi_exact[q], norm |-> psi_exact]])
    IN  IF callback = None THEN normalized
        ELSE FApply(callback[1], <<Tensor(<<h.dim>>, psi_exact)>>, <<>>)

\* _evol(t): the state at time t from the eigendecomposition <<es, u>> of h,
\* divided by its norm, then handed to callback when there is one
Evol(h, psi0, callback, t) ==
    LET es == [eigenvalues |-> h.name]
        u == [eigenvectors |-> h.name]
        utpsi0 == [transposed |-> u, on |-> psi0]
        psi_exact == [q \in 1..h.dim |->
                         [t |-> t, es |-> es, u |-> u, utpsi0 |-> utpsi0, comp |-> q]]
        normalized == Tensor(<<h.dim>>,
                             [q \in 1..h.dim |->
                                 [num |-> psi_exact[q], norm |-> psi_exact]])
    IN  IF callback = None THEN normalized
        ELSE FApply(callback[1], <<normalized>>, <<>>)

\* hamiltonian_evol(tlist, h, psi0, callback)
hamiltonian_evol(be, tlist, h, psi0, callback) ==
    LET n == tlist.shape[1]
        ts == [k \in 1..n |-> Slice0(tlist, k - 1)]
    IN  [r |-> Stack(be, [k \in 1..n |-> Evol(h, psi0, callback, ts[k])]),
         calls |-> <<[op |-> "eigh", at |-> h.name]>>
                   \o [k \in 1..n |-> [op |-> "_evol", at |-> ts[k]]]]

---------------------------------------------------------------------------
(* Inputs. *)

\* The backends differ, for this module, in backend.stack([]) alone: numpy and
\* torch behave as jax does.
Backends == {"jax", "tensorflow"}

KwsSet == {<<>>, <<"shots">>}

OutShapes == UNION {[1..r -> {OutDim}] : r \in 0..MaxOutRank}
Fs == {[name |-> "f", out |-> s, jit |-> FALSE] : s \in OutShapes}

VectorizedArgnums == {PyInt(0), PyInt(1), PySeq(<<0>>), PySeq(<<0, 1>>), PySeq(<<1, 0>>)}
ChunkSizes == {None} \cup {Some(c) : c \in 1..MaxChunk}

\* Batched arguments.  The wrapper only moves entries around, so entries that
\* are all different (a ramp) show where every entry went; a constant batch
\* and a batch of rows are there as well.
Ramp(n, base) == Tensor(<<n>>, [k \in 1..n |-> base + k])
Const(n, v) == Tensor(<<n>>, [k \in 1..n |-> v])
RampRows(n, base) == Tensor(<<n, OutDim>>, [k \in 1..(n * OutDim) |-> base + k])
Batches(n) == {Ramp(n, 0), Ramp(n, 100), Const(n, 0), RampRows(n, 200)}
\* two positional arguments with the same leading extent n
BatchArgs == UNION {{<<a, b>> : a \in Batches(n), b \in Batches(n)} : n \in 1..MaxN}

Kernels == {"qng", "dynamics", "other"}
Modes == {"fwd", "rev", "other"}
Postprocesses ==
    {PyStr("qng"), PyStr("dynamics"), PyStr(""), PyNone, PyCallable("g")}
QF == [name |-> "f", out |-> <<OutDim>>, jit |-> FALSE]

Vectors(n) == {Tensor(<<n>>, d) : d \in [1..n -> Vals]}
Scalars == {Tensor(<<>>, <<v>>) : v \in Vals}
Params == Scalars \cup UNION {Vectors(n) : n \in 1..MaxSize}

\* a function "with weights in and expectation out"
PF == [name |-> "f", out |-> <<>>, jit |-> FALSE]
Argnums ==
    {PyInt(0), PyInt(1), PySeq(<<0>>), PySeq(<<1>>), PySeq(<<0, 1>>), PySeq(<<1, 0>>)}
RandomArgnums == {None, Some(PyInt(2)), Some(PySeq(<<2>>))}
\* <<shifts[0], shifts[1]>>, in units that keep the entries integers
Shifts == {<<1, 2>>, <<2, 1>>}
Keys == {Tensor(<<>>, <<1>>), Tensor(<<>>, <<5>>)}
\* two parameter tensors and a random key
GradArgs == {<<a, b, k>> : a \in Params, b \in Params, k \in Keys}

Times == {0, 1}
TLists == UNION {{Tensor(<<n>>, d) : d \in [1..n -> Times]} : n \in 0..MaxT}
Hamiltonians == {[name |-> "h", dim |-> OutDim]}
Callbacks == {None} \cup {Some([name |-> "callback", out |-> s, jit |-> FALSE]) :
                             s \in {<<>>, <<OutDim>>}}

---------------------------------------------------------------------------
(* The state machine: a builder returns a callable, a call runs it, and the  *)
(* caller drops both.                                                        *)

NoWrapper == [err |-> "", fn |-> "none"]
NoResult == Raise("none")

Init ==
    /\ backend \in Backends
    /\ phase = "idle"
    /\ wrapper = NoWrapper
    /\ args = <<>>
    /\ kwargs = <<>>
    /\ result = NoResult
    /\ calls = <<>>

\* a builder returned w, or raised w.err
Built(w) ==
    /\ phase' = IF w.err = "" THEN "built" ELSE "raised"
    /\ wrapper' = w
    /\ args' = <<>>
    /\ kwargs' = <<>>
    /\ result' = IF w.err = "" THEN NoResult ELSE Raise(w.err)
    /\ calls' = <<>>
    /\ UNCHANGED backend

\* the callable was run on as, kw and gave out
Called(as, kw, out) ==
    /\ phase' = "called"
    /\ args' = as
    /\ kwargs' = kw
    /\ result' = out.r
    /\ calls' = out.calls
    /\ UNCHANGED <<backend, wrapper>>

BuildAdaptiveVmap ==
    /\ phase = "idle"
    /\ \E f \in Fs, va \in VectorizedArgnums, c \in ChunkSizes :
           Built(adaptive_vmap(f, va, c))

CallAdaptiveVmap ==
    /\ phase = "built"
    /\ wrapper.fn \in {"vmap", "adaptive_vmap"}
    /\ \E as \in BatchArgs, kw \in KwsSet :
           Called(as, kw, CallVmapLike(backend, wrapper, as, kw))

BuildQng ==
    /\ phase = "idle"
    /\ \E k \in Kernels, p \in Postprocesses, m \in Modes : Built(qng(QF, k, p, m))

CallQng ==
    /\ phase = "built"
    /\ wrapper.fn = "qng"
    /\ \E params \in Params, kw \in KwsSet :
           Called(<<params>>, kw, [r |-> QngWrapper(wrapper, params), calls |-> <<>>])

BuildQng2 ==
    /\ phase = "idle"
    /\ \E k \in Kernels, p \in Postprocesses, m \in Modes : Built(qng2(QF, k, p, m))

CallQng2 ==
    /\ phase = "built"
    /\ wrapper.fn = "qng2"
    /\ \E params \in Params, kw \in KwsSet :
           Called(<<params>>, kw, [r |-> Qng2Wrapper(wrapper, params), calls |-> <<>>])

BuildParameterShiftGrad ==
    /\ phase = "idle"
    /\ \E an \in Argnums, jit \in BOOLEAN, sh \in Shifts :
           Built(parameter_shift_grad(PF, an, jit, sh))

CallGradF ==
    /\ phase = "built"
    /\ wrapper.fn = "parameter_shift_grad"
    /\ \E as \in GradArgs, kw \in KwsSet : Called(as, kw, GradF(wrapper, as, kw))

BuildParameterShiftGradV2 ==
    /\ phase = "idle"
    /\ \E an \in Argnums, jit \in BOOLEAN, ra \in RandomArgnums, sh \in Shifts :
           Built(parameter_shift_grad_v2(PF, an, jit, ra, sh))

CallGradFV2 ==
    /\ phase = "built"
    /\ wrapper.fn = "parameter_shift_grad_v2"
    /\ \E as \in GradArgs, kw \in KwsSet :
           Called(as, kw, GradFV2(backend, wrapper, as, kw))

HamiltonianEvol ==
    /\ phase = "idle"
    /\ \E tlist \in TLists, h \in Hamiltonians, psi0 \in Vectors(OutDim), cb \in Callbacks :
           /\ phase' = "called"
           /\ wrapper' = [err |-> "", fn |-> "hamiltonian_evol"]
           /\ args' = <<tlist, h, psi0, cb>>
           /\ kwargs' = <<>>
           /\ result' = hamiltonian_evol(backend, tlist, h, psi0, cb).r
           /\ calls' = hamiltonian_evol(backend, tlist, h, psi0, cb).calls
           /\ UNCHANGED backend

\* the caller drops the callable and its result
Release ==
    /\ phase \in {"called", "raised"}
    /\ phase' = "idle"
    /\ wrapper' = NoWrapper
    /\ args' = <<>>
    /\ kwargs' = <<>>
    /\ result' = NoResult
    /\ calls' = <<>>
    /\ UNCHANGED backend

Next ==
    \/ BuildAdaptiveVmap
    \/ CallAdaptiveVmap
    \/ BuildQng
    \/ CallQng
    \/ BuildQng2
    \/ CallQng2
    \/ BuildParameterShiftGrad
    \/ CallGradF
    \/ BuildParameterShiftGradV2
    \/ CallGradFV2
    \/ HamiltonianEvol
    \/ Release

Spec == Init /\ [][Next]_vars

\* the chunked vmap alone
NextVmap == BuildAdaptiveVmap \/ CallAdaptiveVmap \/ Release
SpecVmap == Init /\ [][NextVmap]_vars

\* the natural-gradient wrappers alone
NextQng == BuildQng \/ CallQng \/ BuildQng2 \/ CallQng2 \/ Release
SpecQng == Init /\ [][NextQng]_vars

\* the parameter-shift gradients alone
NextGrad ==
    \/ BuildParameterShiftGrad
    \/ CallGradF
    \/ BuildParameterShiftGradV2
    \/ CallGradFV2
    \/ Release
SpecGrad == Init /\ [][NextGrad]_vars

\* hamiltonian_evol alone
NextEvol == HamiltonianEvol \/ Release
SpecEvol == Init /\ [][NextEvol]_vars

---------------------------------------------------------------------------
(* The claims. *)

CalledFn(fn) == phase = "called" /\ wrapper.fn = fn

\* the batch size of a call of adaptive_vmap's wrapper
BatchSize == Arg(args, wrapper.vectorized_argnums[1]).shape[1]

\* C1: for every n >= 1 and chunk_size c >= 1 the chunked wrapper returns what
\* backend.vmap returns: n entries along the leading axis, the k-th being f on
\* the k-th slice of every vectorized argument (f returning a scalar or a
\* vector per element).
C1_ChunkedEqualsVmap ==
    (CalledFn("adaptive_vmap") /\ Len(wrapper.f.out) <= 1) =>
        /\ IsOk(result)
        /\ result.shape = <<BatchSize>> \o wrapper.f.out
        /\ \A k \in 0..(BatchSize - 1) :
               Slice0(result, k) =
                   FApply(wrapper.f, ElemArgs(wrapper.vectorized_argnums, args, k), kwargs)

\* C2: the batches handed to the vmapped f are the consecutive index ranges
\* [0, c), [c, 2c), ... in ascending order: floor(n / c) batches of c elements
\* and then, when n mod c # 0, one batch of n mod c; together a partition of
\* 0..n-1.
C2_BatchesPartition ==
    CalledFn("adaptive_vmap") =>
        LET n == BatchSize
            c == wrapper.chunk_size
        IN  /\ Len(calls) = (n \div c) + (IF n % c # 0 THEN 1 ELSE 0)
            /\ \A i \in 1..Len(calls) :
                   \A j \in 1..Len(args) :
                       calls[i].args[j] =
                           IF InSeq(j - 1, wrapper.vectorized_argnums)
                           THEN Rows(args[j], (i - 1) * c, IF i * c < n THEN i * c ELSE n)
                           ELSE args[j]

\* C6: the chunked result keeps the per-element output shape S of f for
\* outputs of any rank: its shape is [n] + S, with and without a remainder
\* batch.  (Stated for batches holding at least one full chunk; the batches
\* smaller than a chunk are C1's.)
C6_KeepsOutputShape ==
    (CalledFn("adaptive_vmap") /\ BatchSize >= wrapper.chunk_size) =>
        /\ IsOk(result)
        /\ result.shape = <<BatchSize>> \o wrapper.f.out

\* C3: qng's and qng2's wrapper, with kernel "qng" or "dynamics" and any mode,
\* raises ValueError("Unsupported postprocess option") exactly when postprocess
\* is a string other than "qng"; building the wrapper never raises.
C3_PostprocessValidation ==
    (wrapper.fn \in {"qng", "qng2"}) =>
        /\ phase # "raised"
        /\ wrapper.err = ""
        /\ (phase = "called" /\ wrapper.kernel \in {"qng", "dynamics"}) =>
               ((result.err = UnsupportedPostprocess)
                    <=> (wrapper.postprocess.kind = "str" /\ wrapper.postprocess.v # "qng"))

C3_Witness ==
    /\ CalledFn("qng2")
    /\ wrapper.kernel = "dynamics"
    /\ wrapper.mode = "other"
    /\ wrapper.postprocess = PyStr("dynamics")
    /\ result.err = UnsupportedPostprocess

\* args with component k (1-based, row-major) of the argument at position i
\* changed by d
Shifted(as, i, k, d) ==
    [as EXCEPT ![i + 1].data[k] = @ + d]

\* C4: for every argnums (an int i, also i # 0, or distinct positions in any
\* order) grad_f returns for each listed position i a tensor of the shape of
\* args[i] whose component k is (f(args[i] raised by shifts[0] at k) -
\* f(args[i] lowered by shifts[0] at k)) / shifts[1], every other argument
\* passed unchanged.
C4_GradIsCentralDifference ==
    CalledFn("parameter_shift_grad") =>
        /\ IsOk(result)
        /\ Len(result.vals) = Len(wrapper.argnums)
        /\ \A idx \in 1..Len(wrapper.argnums) :
               LET i == wrapper.argnums[idx]
                   g == result.vals[idx]
               IN  /\ g.shape = Arg(args, i).shape
                   /\ \A k \in 1..Prod(g.shape) :
                          g.data[k] =
                              [plus |-> FApply(wrapper.f,
                                               Shifted(args, i, k, wrapper.shifts[1]),
                                               kwargs).data[1],
                               minus |-> FApply(wrapper.f,
                                                Shifted(args, i, k, 0 - wrapper.shifts[1]),
                                                kwargs).data[1],
                               den |-> wrapper.shifts[2]]

\* C5: with random_argnums = None, the grad_f of parameter_shift_grad_v2(f,
\* argnums, jit, shifts=shifts) makes the same vmapped calls of f, in the same
\* order and on the same shifted arguments, and returns (or raises) the same
\* as the grad_f of parameter_shift_grad(f, argnums, jit, shifts).
C5_V2WithoutRandomEqualsV1 ==
    (CalledFn("parameter_shift_grad_v2") /\ wrapper.random_argnums = None) =>
        LET g == wrapper.given
            v1 == GradF(parameter_shift_grad(g.f, g.argnums, g.jit, g.shifts), args, kwargs)
        IN  /\ result = v1.r
            /\ calls = v1.calls

C5_Witness ==
    /\ CalledFn("parameter_shift_grad_v2")
    /\ wrapper.random_argnums = None
    /\ wrapper.argnums = <<0, 1>>
    /\ IsOk(result)
    /\ result.tuple
    /\ Len(calls) = 4
    /\ Arg(args, 1).shape = <<MaxSize>>

\* the subkeys the random argument at position j (0-based) got in this call,
\* one per evaluation of f, in order
RECURSIVE SubkeysFrom(_, _)
SubkeysFrom(cs, j) ==
    IF cs = <<>> THEN <<>> ELSE Arg(Head(cs).args, j).data \o SubkeysFrom(Tail(cs), j)

\* C8: in one call of the v2 grad_f with random_argnums given, every
\* evaluation of f (over all of argnums, both signs, all components) gets for
\* each random argument j a subkey different from that of every other
\* evaluation, and never the caller's key args[j] itself.
C8_SubkeysDistinct ==
    (CalledFn("parameter_shift_grad_v2") /\ wrapper.random_argnums # None) =>
        \A r \in 1..Len(wrapper.random_argnums[1]) :
            LET j == wrapper.random_argnums[1][r]
                ks == SubkeysFrom(calls, j)
            IN  /\ \A p, q \in 1..Len(ks) : p # q => ks[p] # ks[q]
                /\ \A p \in 1..Len(ks) : ks[p] # Arg(args, j).data[1]

\* what row k of hamiltonian_evol's result is to be: the normalized state at
\* time t, or callback of it
EvolRow(h, psi0, callback, t) ==
    IF callback = None THEN Evol(h, psi0, None, t)
    ELSE FApply(callback[1], <<Evol(h, psi0, None, t)>>, <<>>)

RowsInOrder ==
    LET tlist == args[1]
        n == tlist.shape[1]
    IN  /\ IsOk(result)
        /\ result.shape # <<>>
        /\ result.shape[1] = n
        /\ \A k \in 0..(n - 1) :
               Slice0(result, k) = EvolRow(args[2], args[3], args[4], Slice0(tlist, k))
        /\ Cardinality({c \in 1..Len(calls) : calls[c].op = "eigh"}) = 1

\* C7 as stated: hamiltonian_evol returns one row per element of tlist, in
\* tlist order, row k the normalized state at tlist[k] from the one
\* eigendecomposition of h, or callback of that normalized state.
C7_OneRowPerTime == CalledFn("hamiltonian_evol") => RowsInOrder

\* C7 as amended: the same, for a tlist that is not empty.
C7_OneRowPerTimeNonEmpty ==
    (CalledFn("hamiltonian_evol") /\ args[1].shape[1] >= 1) => RowsInOrder

C7_Witness ==
    /\ CalledFn("hamiltonian_evol")
    /\ args[1] = Tensor(<<2>>, <<1, 0>>)
    /\ args[4] # None
    /\ IsOk(result)
    /\ result.shape[1] = 2

=============================================================================
